---- MODULE Spec2Model ----
(***************************************************************************)
(* Bank-statement transaction parser (transaction_parser.py).              *)
(*                                                                         *)
(* Text is modelled at character level.  A character is a one-element      *)
(* string; the Polish letters, which the parser cannot write in a string   *)
(* literal here, carry ASCII names ("A_og" for A-ogonek, "Z_dot" for       *)
(* Z-with-dot, "L_st" for L-stroke, "S_ac", "C_ac" for the acutes; the     *)
(* lower-case letters likewise), and "nbsp" is the non-breaking space, a   *)
(* character of class \s that str.replace(' ', '') leaves in place.        *)
(* A text is the sequence of its characters; its tokens are its maximal    *)
(* runs without a \s character, and JoinT joins tokens with single spaces. *)
(* Python's 0-based line index i is the 1-based position i+1 here.         *)
(***************************************************************************)
EXTENDS Integers, Sequences, FiniteSets, TLC

VARIABLES
    amount_str,        \* clean_amount: the argument
    amount_out,        \* clean_amount: the returned value, or "none" before the call
    line,              \* parse_transaction_line: the argument
    parsed,            \* parse_transaction_line: the returned record, None, or "pending"
    pc,                \* position in parse_all_files / parse_pdf_file
    pdf_files,         \* parse_all_files: the paths the glob found
    queue,             \* parse_all_files: sorted(pdf_files)
    file_idx,          \* parse_all_files: position of the for loop in queue
    n_pages,           \* parse_pdf_file: len(pdf.pages)
    page_num,          \* parse_pdf_file: enumerate(pdf.pages, 1)
    lines,             \* parse_pdf_file: text.split('\n') of the current page
    i,                 \* parse_pdf_file: position in lines already handled
    transactions,      \* parse_pdf_file: the local result list
    all_transactions,  \* parse_all_files: the accumulated result
    seen,              \* history: the lines of the current document the loop has visited
    all_seen,          \* history: the visited lines of the finished documents
    failed,            \* history: the documents whose open or read raised
    parsed_of,         \* parse_transaction_line on each line of the pages
    details_of         \* the detail patterns on each line of the pages

vars == <<amount_str, amount_out, line, parsed, pc, pdf_files, queue, file_idx,
          n_pages, page_num, lines, i, transactions, all_transactions,
          seen, all_seen, failed, parsed_of, details_of>>

(***************************************************************************)
(* Bounds of the checked instances.                                        *)
(***************************************************************************)
MaxLen == 4
MaxLines == 6
MaxDetails == 3
MaxFiles == 2
MaxPages == 2

(***************************************************************************)
(* Characters.                                                             *)
(***************************************************************************)
Digits == {"0", "1", "2", "3", "4", "5", "6", "7", "8", "9"}

UpperAZ == {"A", "B", "C", "D", "E", "F", "G", "H", "I", "J", "K", "L", "M",
            "N", "O", "P", "Q", "R", "S", "T", "U", "V", "W", "X", "Y", "Z"}

UpperSeq == <<"A", "B", "C", "D", "E", "F", "G", "H", "I", "J", "K", "L", "M",
              "N", "O", "P", "Q", "R", "S", "T", "U", "V", "W", "X", "Y", "Z",
              "A_og", "Z_dot", "L_st", "S_ac", "C_ac">>

LowerSeq == <<"a", "b", "c", "d", "e", "f", "g", "h", "i", "j", "k", "l", "m",
              "n", "o", "p", "q", "r", "s", "t", "u", "v", "w", "x", "y", "z",
              "a_og", "z_dot", "l_st", "s_ac", "c_ac">>

\* the class \s, as far as the model's alphabet goes
Space == {" ", "nbsp"}

DigitVal(c) ==
    CASE c = "0" -> 0 [] c = "1" -> 1 [] c = "2" -> 2 [] c = "3" -> 3
      [] c = "4" -> 4 [] c = "5" -> 5 [] c = "6" -> 6 [] c = "7" -> 7
      [] c = "8" -> 8 [] c = "9" -> 9

AllIn(s, S) == \A k \in 1..Len(s) : s[k] \in S

Drop(s, n) == SubSeq(s, n + 1, Len(s))

Take(s, n) == SubSeq(s, 1, n)

\* str.lower() of one character
LowerChar(c) ==
    IF \E k \in 1..Len(UpperSeq) : UpperSeq[k] = c
    THEN LowerSeq[CHOOSE k \in 1..Len(UpperSeq) : UpperSeq[k] = c]
    ELSE c

\* str.lower()
Lower(s) == [k \in 1..Len(s) |-> LowerChar(s[k])]

\* needle in hay (Python's substring test)
Contains(hay, needle) ==
    \E k \in 0..(Len(hay) - Len(needle)) :
        SubSeq(hay, k + 1, k + Len(needle)) = needle

\* s.replace(a, b) for a single character a and a string b (possibly empty)
RECURSIVE Replace(_, _, _)
Replace(s, a, b) ==
    IF s = <<>> THEN <<>>
    ELSE (IF Head(s) = a THEN b ELSE <<Head(s)>>) \o Replace(Tail(s), a, b)

\* the text of a token sequence: the tokens separated by single spaces
RECURSIVE JoinT(_)
JoinT(toks) ==
    IF toks = <<>> THEN <<>>
    ELSE IF Len(toks) = 1 THEN toks[1]
    ELSE toks[1] \o <<" ">> \o JoinT(Tail(toks))

(***************************************************************************)
(* Numbers.  A float is written as the decimal it denotes: mantissa m and  *)
(* e fraction digits, m * 10^(-e), with no trailing zero in the fraction   *)
(* (0.0 and -0.0 are equal in Python and are both [m |-> 0, e |-> 0]).     *)
(***************************************************************************)
RECURSIVE DigitsToInt(_)
DigitsToInt(s) ==
    IF s = <<>> THEN 0
    ELSE DigitsToInt(Take(s, Len(s) - 1)) * 10 + DigitVal(s[Len(s)])

RECURSIVE Normalise(_, _)
Normalise(m, e) ==
    IF e > 0 /\ m % 10 = 0 THEN Normalise(m \div 10, e - 1)
    ELSE [m |-> m, e |-> e]

Zero == [m |-> 0, e |-> 0]

RECURSIVE StripSpace(_)
StripSpace(s) ==
    IF s # <<>> /\ Head(s) \in Space THEN StripSpace(Tail(s))
    ELSE IF s # <<>> /\ s[Len(s)] \in Space THEN StripSpace(Take(s, Len(s) - 1))
    ELSE s

\* float(s) for s over digits, signs, ".", spaces and letters that start no
\* float keyword: [sign] digits [. [digits]] or [sign] . digits, surrounding
\* white space ignored; anything else raises ValueError.
FloatBody(s) ==
    LET u == IF s # <<>> /\ s[1] \in {"-", "+"} THEN Tail(s) ELSE s
        dot == IF \E k \in 1..Len(u) : u[k] = "."
               THEN CHOOSE k \in 1..Len(u) : u[k] = "." /\ \A j \in 1..(k - 1) : u[j] # "."
               ELSE Len(u) + 1
    IN  [neg |-> s # <<>> /\ s[1] = "-",
         int |-> Take(u, dot - 1),
         frac |-> Drop(u, dot)]

FloatOk(s) ==
    LET b == FloatBody(StripSpace(s))
    IN  /\ AllIn(b.int, Digits)
        /\ AllIn(b.frac, Digits)
        /\ Len(b.int) + Len(b.frac) >= 1

FloatVal(s) ==
    LET b == FloatBody(StripSpace(s))
        mant == DigitsToInt(b.int \o b.frac)
    IN  Normalise(IF b.neg THEN 0 - mant ELSE mant, Len(b.frac))

\* clean_amount with the comma dropped instead of replaced by a point
clean_amount_dropcomma(s) ==
    IF s = <<>> THEN Zero
    ELSE LET cleaned == Replace(Replace(s, " ", <<>>), ",", <<>>)
         IN  IF FloatOk(cleaned) THEN FloatVal(cleaned) ELSE Zero

\* TransactionParser.clean_amount
clean_amount(s) ==
    IF s = <<>> THEN Zero
    ELSE LET cleaned == Replace(Replace(s, " ", <<>>), ",", <<".">>)
         IN  IF FloatOk(cleaned) THEN FloatVal(cleaned) ELSE Zero

(***************************************************************************)
(* The literals of the regular expressions and of the category keys, as    *)
(* character sequences.                                                    *)
(***************************************************************************)
W_ZAKUP ==
    <<"Z", "A", "K", "U", "P">>

W_PRZY ==
    <<"P", "R", "Z", "Y">>

W_UZYCIU ==
    <<"U", "Z_dot", "Y", "C", "I", "U">>

W_KARTY ==
    <<"K", "A", "R", "T", "Y">>

W_PLATNOSC ==
    <<"P", "L_st", "A", "T", "N", "O", "S_ac", "C_ac">>

W_WEB ==
    <<"W", "E", "B">>

W_ZWROT ==
    <<"Z", "W", "R", "O", "T">>

W_BLIK ==
    <<"B", "L", "I", "K">>

W_PRZELEW ==
    <<"P", "R", "Z", "E", "L", "E", "W">>

W_WYCHODZACY ==
    <<"W", "Y", "C", "H", "O", "D", "Z", "A_og", "C", "Y">>

W_PRZYCHODZACY ==
    <<"P", "R", "Z", "Y", "C", "H", "O", "D", "Z", "A_og", "C", "Y">>

W_WYMIANA ==
    <<"W", "Y", "M", "I", "A", "N", "A">>

W_W ==
    <<"W">>

W_KANTORZE ==
    <<"K", "A", "N", "T", "O", "R", "Z", "E">>

W_DASH ==
    <<"-">>

W_UZNANIE ==
    <<"U", "Z", "N", "A", "N", "I", "E">>

W_OBCIAZENIE ==
    <<"O", "B", "C", "I", "A_og", "Z_dot", "E", "N", "I", "E">>

W_Saldo ==
    <<"S", "a", "l", "d", "o">>

W_z ==
    <<"z">>

W_przeniesienia ==
    <<"p", "r", "z", "e", "n", "i", "e", "s", "i", "e", "n", "i", "a">>

K_zakup ==
    <<"z", "a", "k", "u", "p", " ", "p", "r", "z", "y", " ", "u", "z_dot",
      "y", "c", "i", "u", " ", "k", "a", "r", "t", "y">>

K_platnosc ==
    <<"p", "l_st", "a", "t", "n", "o", "s_ac", "c_ac", " ", "w", "e", "b">>

K_zwrot ==
    <<"z", "w", "r", "o", "t", " ", "b", "l", "i", "k">>

K_wychodzacy ==
    <<"p", "r", "z", "e", "l", "e", "w", " ", "w", "y", "c", "h", "o", "d",
      "z", "a_og", "c", "y">>

K_przychodzacy ==
    <<"p", "r", "z", "e", "l", "e", "w", " ", "p", "r", "z", "y", "c", "h",
      "o", "d", "z", "a_og", "c", "y">>

K_wymiana ==
    <<"w", "y", "m", "i", "a", "n", "a", " ", "w", " ", "k", "a", "n", "t",
      "o", "r", "z", "e">>

S_BALANCE_TRANSFER ==
    <<"B", "A", "L", "A", "N", "C", "E", "_", "T", "R", "A", "N", "S", "F",
      "E", "R">>

S_balance_description ==
    <<"B", "a", "l", "a", "n", "c", "e", " ", "t", "r", "a", "n", "s", "f",
      "e", "r", " ", "f", "r", "o", "m", " ", "p", "r", "e", "v", "i", "o",
      "u", "s", " ", "p", "e", "r", "i", "o", "d">>

P_Karta ==
    <<"K", "a", "r", "t", "a", ":">>

P_Lokalizacja ==
    <<"L", "o", "k", "a", "l", "i", "z", "a", "c", "j", "a", ":">>

P_Tel ==
    <<"T", "e", "l", ":">>

P_Godz ==
    <<"G", "o", "d", "z", ".">>

P_ref ==
    <<"r", "e", "f", ":">>

P_PLN ==
    <<"P", "L", "N">>

W_Nr ==
    <<"N", "r">>

W_Kwota ==
    <<"K", "w", "o", "t", "a">>

W_oryg ==
    <<"o", "r", "y", "g", ".", ":">>

W_Ref ==
    <<"R", "e", "f", ".">>

W_wl ==
    <<"w", "l_st", ".">>

W_zlec ==
    <<"z", "l", "e", "c", ".", ":">>

(***************************************************************************)
(* self.patterns: the five line patterns.  Every pattern is anchored with  *)
(* ^ and $, and its groups are separated by \s+, so each group covers      *)
(* whole tokens of the line, a token being a maximal run without a         *)
(* character of class \s.                                                  *)
(***************************************************************************)
\* None as a field's value (a string no text equals) and as the value
\* parse_transaction_line returns
None == <<"None">>

NoTransaction == [none |-> TRUE]

IsTransaction(r) == "pattern_used" \in DOMAIN r

NoMatch == [matched |-> FALSE]

\* \d{2}\.\d{2}\.\d{4}
IsDate(t) ==
    /\ Len(t) = 10
    /\ \A k \in {1, 2, 4, 5, 7, 8, 9, 10} : t[k] \in Digits
    /\ t[3] = "."
    /\ t[6] = "."

\* [A-Z0-9]+
IsId(t) == Len(t) >= 1 /\ AllIn(t, UpperAZ \cup Digits)

\* (?:\s?\d{3})*,\d{2} up to the end of s
RECURSIVE AmountGroups(_)
AmountGroups(s) ==
    \/ Len(s) = 3 /\ s[1] = "," /\ s[2] \in Digits /\ s[3] \in Digits
    \/ /\ Len(s) >= 3
       /\ AllIn(Take(s, 3), Digits)
       /\ AmountGroups(Drop(s, 3))
    \/ /\ Len(s) >= 4
       /\ s[1] \in Space
       /\ AllIn(SubSeq(s, 2, 4), Digits)
       /\ AmountGroups(Drop(s, 4))

\* \d{1,3}(?:\s?\d{3})*,\d{2} matching all of s
IsBalance(s) ==
    \E n \in 1..3 :
        /\ Len(s) >= n
        /\ AllIn(Take(s, n), Digits)
        /\ AmountGroups(Drop(s, n))

\* -?\d{1,3}(?:\s?\d{3})*,\d{2} matching all of s
IsAmount(s) ==
    \/ IsBalance(s)
    \/ Len(s) >= 1 /\ s[1] = "-" /\ IsBalance(Tail(s))

\* the description alternatives of the three specific patterns
CardLiterals ==
    {JoinT(<<W_ZAKUP, W_PRZY, W_UZYCIU, W_KARTY>>), JoinT(<<W_PLATNOSC, W_WEB>>),
     JoinT(<<W_ZWROT, W_BLIK>>)}

TransferLiterals ==
    {JoinT(<<W_PRZELEW, W_WYCHODZACY>>), JoinT(<<W_PRZELEW, W_PRZYCHODZACY>>)}

ExchangeLiterals ==
    {JoinT(<<W_WYMIANA, W_W, W_KANTORZE, W_DASH, W_UZNANIE>>),
     JoinT(<<W_WYMIANA, W_W, W_KANTORZE, W_DASH, W_OBCIAZENIE>>)}

\* (.+?) between two \s+: any text from the start of a token to the end of one
AnyDescription(d) == Len(d) >= 1

IsCardLiteral(d) == d \in CardLiterals

IsTransferLiteral(d) == d \in TransferLiterals

IsExchangeLiteral(d) == d \in ExchangeLiterals

\* the elements of a set of numbers in increasing order
RECURSIVE Ascending(_)
Ascending(S) ==
    IF S = {} THEN <<>>
    ELSE LET least == CHOOSE x \in S : \A y \in S : x <= y
         IN  <<least>> \o Ascending(S \ {least})

\* where the tokens of s (its maximal runs without a \s character) start
TokenStarts(s) ==
    Ascending({p \in 1..Len(s) : s[p] \notin Space /\ (p = 1 \/ s[p - 1] \in Space)})

\* and where they end
TokenEnds(s) ==
    Ascending({p \in 1..Len(s) : s[p] \notin Space /\ (p = Len(s) \/ s[p + 1] \in Space)})

\* ^(date)\s+(id)\s+(description)\s+(amount)\s+(balance)$ on a stripped line:
\* the match the regex engine finds and its groups.  A group next to \s+
\* starts where a token starts and ends where one ends; the lazy (.+?)
\* takes the shortest description that lets the rest match, a literal
\* description fits at one place at most, and the amount ends in the first
\* token that holds a comma.
FiveFieldMatch(s, DescOk(_)) ==
    LET S == TokenStarts(s)
        E == TokenEnds(s)
        n == Len(S)
        Span(a, b) == SubSeq(s, S[a], E[b])
        Splits == {km \in (3..(n - 2)) \X (4..(n - 1)) :
                      /\ km[1] < km[2]
                      /\ DescOk(Span(3, km[1]))
                      /\ IsAmount(Span(km[1] + 1, km[2]))
                      /\ IsBalance(Span(km[2] + 1, n))}
    IN  IF n < 5 THEN NoMatch
        ELSE IF ~(IsDate(Span(1, 1)) /\ IsId(Span(2, 2))) \/ Splits = {} THEN NoMatch
        ELSE LET km == CHOOSE x \in Splits :
                           \A y \in Splits : x[1] < y[1] \/ (x[1] = y[1] /\ x[2] <= y[2])
             IN  [matched |-> TRUE,
                  groups |-> <<Span(1, 1), Span(2, 2), Span(3, km[1]),
                               Span(km[1] + 1, km[2]), Span(km[2] + 1, n)>>]

\* ^Saldo z przeniesienia\s+(balance)$ on a stripped line
BalanceTransferMatch(s) ==
    LET S == TokenStarts(s)
        E == TokenEnds(s)
        n == Len(S)
    IN  IF n < 4 THEN NoMatch
        ELSE IF /\ SubSeq(s, 1, E[3]) = JoinT(<<W_Saldo, W_z, W_przeniesienia>>)
                /\ IsBalance(SubSeq(s, S[4], E[n]))
        THEN [matched |-> TRUE, groups |-> <<SubSeq(s, S[4], E[n])>>]
        ELSE NoMatch

\* pattern.match(line) for the pattern of the given name
PatternMatch(name, s) ==
    CASE name = "main_transaction" -> FiveFieldMatch(s, AnyDescription)
      [] name = "card_transaction" -> FiveFieldMatch(s, IsCardLiteral)
      [] name = "transfer_transaction" -> FiveFieldMatch(s, IsTransferLiteral)
      [] name = "currency_exchange" -> FiveFieldMatch(s, IsExchangeLiteral)
      [] name = "balance_transfer" -> BalanceTransferMatch(s)

\* self.patterns.items(): the dict's insertion order
PatternOrder ==
    <<"main_transaction", "card_transaction", "transfer_transaction",
      "currency_exchange", "balance_transfer">>

\* _categorize_transaction with a default outside the label set
categorize_transaction_unknown(description) ==
    LET description_lower == Lower(description)
    IN  IF Contains(description_lower, K_zakup) THEN "Card Purchase"
        ELSE IF Contains(description_lower, K_platnosc) THEN "Web Payment"
        ELSE IF Contains(description_lower, K_zwrot) THEN "BLIK Refund"
        ELSE IF Contains(description_lower, K_wychodzacy) THEN "Outgoing Transfer"
        ELSE IF Contains(description_lower, K_przychodzacy) THEN "Incoming Transfer"
        ELSE IF Contains(description_lower, K_wymiana) THEN "Currency Exchange"
        ELSE "Unknown"

\* TransactionParser._categorize_transaction
categorize_transaction(description) ==
    LET description_lower == Lower(description)
    IN  IF Contains(description_lower, K_zakup) THEN "Card Purchase"
        ELSE IF Contains(description_lower, K_platnosc) THEN "Web Payment"
        ELSE IF Contains(description_lower, K_zwrot) THEN "BLIK Refund"
        ELSE IF Contains(description_lower, K_wychodzacy) THEN "Outgoing Transfer"
        ELSE IF Contains(description_lower, K_przychodzacy) THEN "Incoming Transfer"
        ELSE IF Contains(description_lower, K_wymiana) THEN "Currency Exchange"
        ELSE "Other"

\* the record with the carryover's value stored as its amount
TransactionRecord_swapped(name, stripped, groups) ==
    IF name = "balance_transfer"
    THEN [date |-> None,
          transaction_id |-> S_BALANCE_TRANSFER,
          type |-> "Saldo z przeniesienia",
          description |-> S_balance_description,
          amount |-> clean_amount(groups[1]),
          balance |-> Zero,
          raw_line |-> stripped,
          pattern_used |-> name]
    ELSE [date |-> groups[1],
          transaction_id |-> groups[2],
          type |-> categorize_transaction(groups[3]),
          description |-> groups[3],
          amount |-> clean_amount(groups[4]),
          balance |-> clean_amount(groups[5]),
          raw_line |-> stripped,
          pattern_used |-> name]

\* the record parse_transaction_line builds for the pattern that matched
\* the stripped line
TransactionRecord(name, stripped, groups) ==
    IF name = "balance_transfer"
    THEN [date |-> None,
          transaction_id |-> S_BALANCE_TRANSFER,
          type |-> "Saldo z przeniesienia",
          description |-> S_balance_description,
          amount |-> Zero,
          balance |-> clean_amount(groups[1]),
          raw_line |-> stripped,
          pattern_used |-> name]
    ELSE [date |-> groups[1],
          transaction_id |-> groups[2],
          type |-> categorize_transaction(groups[3]),
          description |-> groups[3],
          amount |-> clean_amount(groups[4]),
          balance |-> clean_amount(groups[5]),
          raw_line |-> stripped,
          pattern_used |-> name]

\* TransactionParser.parse_transaction_line: None for a line that is empty
\* once stripped or that no pattern matches, else the record of the first
\* pattern, in PatternOrder, that matches
parse_transaction_line(text) ==
    LET stripped == StripSpace(text)
        Hits == {k \in 1..Len(PatternOrder) : PatternMatch(PatternOrder[k], stripped).matched}
    IN  IF stripped = <<>> \/ Hits = {} THEN NoTransaction
        ELSE LET k == CHOOSE x \in Hits : \A y \in Hits : x <= y
                 name == PatternOrder[k]
             IN  TransactionRecord(name, stripped, PatternMatch(name, stripped).groups)

(***************************************************************************)
(* The inputs of the checked instances of clean_amount and of              *)
(* parse_transaction_line.                                                 *)
(***************************************************************************)
T_date ==
    <<"0", "1", ".", "0", "2", ".", "2", "0", "2", "4">>

T_id ==
    <<"A", "B", "C", "1", "2", "3">>

T_lowid ==
    <<"a", "b", "c", "1", "2", "3">>

T_neg100 ==
    <<"-", "1", "0", "0", ",", "0", "0">>

T_900 ==
    <<"9", "0", "0", ",", "0", "0">>

T_neg900 ==
    <<"-", "9", "0", "0", ",", "0", "0">>

T_1 ==
    <<"1">>

T_234_56 ==
    <<"2", "3", "4", ",", "5", "6">>

T_5 ==
    <<"5">>

T_000_00 ==
    <<"0", "0", "0", ",", "0", "0">>

T_1234_56 ==
    <<"1", "2", "3", "4", ",", "5", "6">>

T_100_0 ==
    <<"1", "0", "0", ",", "0">>

T_nbsp_amount ==
    <<"1", "nbsp", "2", "3", "4", ",", "5", "6">>

T_12_00 ==
    <<"1", "2", ",", "0", "0">>

T_OPLATA ==
    <<"O", "P", "L", "A", "T", "A">>

T_Przelew ==
    <<"P", "r", "z", "e", "l", "e", "w">>

T_Wychodzacy ==
    <<"W", "y", "c", "h", "o", "d", "z", "a_og", "c", "y">>

T_EXTRA ==
    <<"E", "X", "T", "R", "A">>

T_garbage ==
    <<"g", "a", "r", "b", "a", "g", "e">>

\* every string of at most n characters over the alphabet A
RECURSIVE Strings(_, _)
Strings(A, n) ==
    IF n = 0 THEN {<<>>}
    ELSE LET shorter == Strings(A, n - 1)
         IN  shorter \cup {Append(s, c) : s \in shorter, c \in A}

AmountAlphabet == {"0", "1", "-", ",", ".", " ", "nbsp", "x"}

AmountSamples ==
    {JoinT(<<T_1, T_234_56>>), T_12_00, <<"-">> \o T_12_00, T_garbage,
     JoinT(<<T_5, T_000_00>>), T_1234_56, T_nbsp_amount, T_neg100}

AmountInputs == Strings(AmountAlphabet, MaxLen) \cup AmountSamples

LineHeads ==
    {<<T_date, T_id>>, <<T_date, T_lowid>>, <<T_date>>, <<>>,
     <<W_Saldo, W_z, W_przeniesienia>>, <<T_id, T_date, T_id>>}

LineDescriptions ==
    {<<d>> : d \in CardLiterals \cup TransferLiterals \cup ExchangeLiterals}
    \cup {<<>>, <<T_OPLATA>>, <<T_Przelew, T_Wychodzacy>>,
          <<W_PRZELEW, W_WYCHODZACY, T_EXTRA>>, <<T_12_00>>, <<W_ZWROT>>,
          <<W_PRZELEW \o <<"nbsp">> \o W_WYCHODZACY>>, <<W_ZWROT, <<>>, W_BLIK>>}

LineTails ==
    {<<T_neg100, T_900>>, <<T_1, T_234_56, T_5, T_000_00>>, <<T_5, T_000_00>>,
     <<T_900>>, <<T_neg100, T_neg900>>, <<T_100_0, T_900>>,
     <<T_nbsp_amount, T_900>>, <<T_1234_56, T_12_00>>, <<T_nbsp_amount>>, <<>>}

\* the lines: a head, a description and a tail separated by single spaces
\* (an empty part leaves a space at an end or two in a row)
LineCorpus == {JoinT(h \o d \o t) : h \in LineHeads, d \in LineDescriptions, t \in LineTails}

Pending == [pending |-> TRUE]

\* the variables of parse_all_files, before it is called
BatchIdle ==
    /\ pdf_files = {}
    /\ queue = <<>>
    /\ file_idx = 0
    /\ n_pages = 0
    /\ page_num = 0
    /\ lines = <<>>
    /\ i = 0
    /\ transactions = <<>>
    /\ all_transactions = <<>>
    /\ seen = <<>>
    /\ all_seen = <<>>
    /\ failed = {}

batch_vars ==
    <<pdf_files, queue, file_idx, n_pages, page_num, lines, i, transactions,
      all_transactions, seen, all_seen, failed>>

memo_vars == <<parsed_of, details_of>>

\* no page is read
NoPages ==
    /\ parsed_of = <<>>
    /\ details_of = <<>>

InitFun ==
    /\ NoPages
    /\ \/ pc = "amount" /\ amount_str \in AmountInputs /\ line = <<>>
       \/ pc = "line" /\ amount_str = <<>> /\ line \in LineCorpus
    /\ amount_out = Pending
    /\ parsed = Pending
    /\ BatchIdle

\* a call of clean_amount(amount_str)
CleanAmount ==
    /\ pc = "amount"
    /\ amount_out' = clean_amount(amount_str)
    /\ pc' = "amount_done"
    /\ UNCHANGED <<amount_str, line, parsed, batch_vars, memo_vars>>

\* a call of parse_transaction_line(line)
ParseLine ==
    /\ pc = "line"
    /\ parsed' = parse_transaction_line(line)
    /\ pc' = "line_done"
    /\ UNCHANGED <<amount_str, amount_out, line, batch_vars, memo_vars>>

NextFun == CleanAmount \/ ParseLine

SpecFun == InitFun /\ [][NextFun]_vars

(***************************************************************************)
(* Properties of clean_amount and parse_transaction_line (SpecFun).        *)
(***************************************************************************)
SpecificRules == {"card_transaction", "transfer_transaction", "currency_exchange"}

SevenLabels ==
    {"Card Purchase", "Web Payment", "BLIK Refund", "Outgoing Transfer",
     "Incoming Transfer", "Currency Exchange", "Other"}

\* the number a locale-formatted amount denotes: its digits read as
\* hundredths, with its sign
LocaleValue(s) ==
    LET digits == SelectSeq(s, LAMBDA c : c \in Digits)
        cents == DigitsToInt(digits)
    IN  Normalise(IF s[1] = "-" THEN 0 - cents ELSE cents, 2)

\* digit groups separated by single ASCII spaces, a comma, two digits
WellFormedAmount(s) == IsAmount(s) /\ \A k \in 1..Len(s) : s[k] # "nbsp"

\* the text float() is given
Cleaned(s) == Replace(Replace(s, " ", <<>>), ",", <<".">>)

\* C1: a line that matches the card, transfer or currency-exchange rule is
\* reported with that rule as pattern_used (the specific rules are tried
\* before the generic one, and the first match is authoritative).
C1_SpecificRuleReported ==
    pc = "line_done" =>
        \A name \in SpecificRules :
            PatternMatch(name, StripSpace(line)).matched =>
                IsTransaction(parsed) /\ parsed.pattern_used = name

C9_CarryoverRecord ==
    LET hit == BalanceTransferMatch(StripSpace(line))
    IN  (pc = "line_done" /\ hit.matched) =>
            /\ \A name \in {"main_transaction"} \cup SpecificRules :
                   ~PatternMatch(name, StripSpace(line)).matched
            /\ IsTransaction(parsed)
            /\ parsed.pattern_used = "balance_transfer"
            /\ parsed.amount = Zero
            /\ parsed.balance = IF WellFormedAmount(hit.groups[1])
                                THEN LocaleValue(hit.groups[1])
                                ELSE Zero
            /\ parsed.date = None
            /\ parsed.transaction_id = S_BALANCE_TRANSFER

C9_Witness ==
    /\ pc = "line_done"
    /\ IsTransaction(parsed)
    /\ parsed.pattern_used = "balance_transfer"
    /\ parsed.balance = [m |-> 5000, e |-> 0]
    /\ parsed.date = None

(***************************************************************************)
(* self.detail_patterns: the five detail patterns.  They are anchored with *)
(* ^ only, so a match is a prefix of the (stripped) line.                  *)
(***************************************************************************)
HasPrefix(t, p) == Len(t) >= Len(p) /\ Take(t, Len(p)) = p

NoFields == [k \in {} |-> <<>>]

NoDetail == [name |-> "none", fields |-> NoFields]

\* \d{4}\d{2}\*{4}\d{4}
IsCardNumber(t) ==
    /\ Len(t) = 14
    /\ AllIn(Take(t, 6), Digits)
    /\ AllIn(SubSeq(t, 7, 10), {"*"})
    /\ AllIn(Drop(t, 10), Digits)

\* \d{2}:\d{2}:\d{2}
IsTime(t) ==
    /\ Len(t) = 8
    /\ \A k \in {1, 2, 4, 5, 7, 8} : t[k] \in Digits
    /\ t[3] = ":"
    /\ t[6] = ":"

\* [A-Z]{3}/[A-Z]{3}
IsCurrencyPair(t) ==
    /\ Len(t) = 7
    /\ AllIn(Take(t, 3), UpperAZ)
    /\ t[4] = "/"
    /\ AllIn(Drop(t, 4), UpperAZ)

\* \d+\.\d+
IsRate(t) ==
    \E d \in 2..(Len(t) - 1) :
        /\ t[d] = "."
        /\ AllIn(Take(t, d - 1), Digits)
        /\ AllIn(Drop(t, d), Digits)

\* the longest prefix of t made of digits (a greedy \d+ or \d*)
RECURSIVE LeadingDigits(_)
LeadingDigits(t) ==
    IF t # <<>> /\ Head(t) \in Digits THEN <<Head(t)>> \o LeadingDigits(Tail(t))
    ELSE <<>>

\* the literal words ws, single ASCII spaces between them, are the tokens
\* j, j+1, ... of s, the last of them possibly followed by more characters
\* (S and E: where the tokens of s start and end)
RECURSIVE WordsAt(_, _, _, _, _)
WordsAt(s, S, E, j, ws) ==
    IF ws = <<>> THEN TRUE
    ELSE /\ j <= Len(S)
         /\ IF Len(ws) = 1
            THEN HasPrefix(SubSeq(s, S[j], E[j]), ws[1])
            ELSE /\ SubSeq(s, S[j], E[j]) = ws[1]
                 /\ j + 1 <= Len(S)
                 /\ S[j + 1] = E[j] + 2
                 /\ s[E[j] + 1] = " "
                 /\ WordsAt(s, S, E, j + 1, Tail(ws))

\* Lokalizacja:\s*(.+?)\s+Nr ref: with 'Lokalizacja:' at the start of token
\* j: the location, or <<>> when there is no match.  The greedy \s* takes
\* the white space after the colon and the lazy group runs from there to
\* the end of the first token that ' Nr ref:' follows; failing that, \s*
\* gives the white space back and the group can only be its first
\* character, the rest of it being the \s+ before 'Nr ref:'.
Location(s, S, E, j) ==
    LET n == Len(S)
        inTok == E[j] - S[j] + 1 > Len(P_Lokalizacja)
        start == IF inTok THEN S[j] + Len(P_Lokalizacja)
                 ELSE IF j < n THEN S[j + 1] ELSE 0
        first == IF inTok THEN j ELSE j + 1
        Ends == {k \in first..(n - 2) : WordsAt(s, S, E, k + 1, <<W_Nr, P_ref>>)}
    IN  IF j > n THEN <<>>
        ELSE IF ~HasPrefix(SubSeq(s, S[j], E[j]), P_Lokalizacja) THEN <<>>
        ELSE IF Ends # {}
        THEN SubSeq(s, start, E[CHOOSE k \in Ends : \A y \in Ends : k <= y])
        ELSE IF /\ ~inTok
                /\ j < n
                /\ S[j + 1] >= E[j] + 3
                /\ WordsAt(s, S, E, j + 1, <<W_Nr, P_ref>>)
        THEN <<s[E[j] + 1]>>
        ELSE <<>>

\* the end m of the amount that starts with token j: the first token from j
\* on that holds a comma (0 when there is none)
AmountEnd(s, S, E, j) ==
    LET Commas == {k \in j..Len(S) : \E p \in S[k]..E[k] : s[p] = ","}
    IN  IF j > Len(S) \/ Commas = {} THEN 0
        ELSE CHOOSE k \in Commas : \A y \in Commas : k <= y

\* ^(date)\s+Karta:(card number)\s+Lokalizacja:\s*(.+?)\s+Nr ref:
CardDetails(s) ==
    LET S == TokenStarts(s)
        E == TokenEnds(s)
        n == Len(S)
    IN  IF n < 3 THEN NoDetail
        ELSE LET t2 == SubSeq(s, S[2], E[2])
                 loc == Location(s, S, E, 3)
             IN  IF /\ IsDate(SubSeq(s, S[1], E[1]))
                    /\ HasPrefix(t2, P_Karta)
                    /\ IsCardNumber(Drop(t2, Len(P_Karta)))
                    /\ loc # <<>>
                 THEN [name |-> "card_details",
                       fields |-> [card_number |-> Drop(t2, Len(P_Karta)),
                                   location |-> loc]]
                 ELSE NoDetail

\* the web-payment pattern with the phone stored under the card's key
WebPaymentDetails_cardkey(s) ==
    LET S == TokenStarts(s)
        E == TokenEnds(s)
        n == Len(S)
    IN  IF n < 4 THEN NoDetail
        ELSE LET t2 == SubSeq(s, S[2], E[2])
                 t3 == SubSeq(s, S[3], E[3])
                 loc == Location(s, S, E, 4)
             IN  IF /\ IsDate(SubSeq(s, S[1], E[1]))
                    /\ HasPrefix(t2, P_Tel)
                    /\ Len(t2) > Len(P_Tel)
                    /\ AllIn(Drop(t2, Len(P_Tel)), Digits)
                    /\ HasPrefix(t3, P_Godz)
                    /\ IsTime(Drop(t3, Len(P_Godz)))
                    /\ loc # <<>>
                 THEN [name |-> "web_payment_details",
                       fields |-> [card_number |-> Drop(t2, Len(P_Tel)),
                                   time |-> Drop(t3, Len(P_Godz)),
                                   location |-> loc]]
                 ELSE NoDetail

\* ^(date)\s+Tel:(\d+)\s+Godz\.(time)\s+Lokalizacja:\s*(.+?)\s+Nr ref:
WebPaymentDetails(s) ==
    LET S == TokenStarts(s)
        E == TokenEnds(s)
        n == Len(S)
    IN  IF n < 4 THEN NoDetail
        ELSE LET t2 == SubSeq(s, S[2], E[2])
                 t3 == SubSeq(s, S[3], E[3])
                 loc == Location(s, S, E, 4)
             IN  IF /\ IsDate(SubSeq(s, S[1], E[1]))
                    /\ HasPrefix(t2, P_Tel)
                    /\ Len(t2) > Len(P_Tel)
                    /\ AllIn(Drop(t2, Len(P_Tel)), Digits)
                    /\ HasPrefix(t3, P_Godz)
                    /\ IsTime(Drop(t3, Len(P_Godz)))
                    /\ loc # <<>>
                 THEN [name |-> "web_payment_details",
                       fields |-> [phone |-> Drop(t2, Len(P_Tel)),
                                   time |-> Drop(t3, Len(P_Godz)),
                                   location |-> loc]]
                 ELSE NoDetail

\* the original-amount pattern with its value stored under 'amount'
OriginalAmount_asAmount(s) ==
    LET S == TokenStarts(s)
        E == TokenEnds(s)
        n == Len(S)
        m == AmountEnd(s, S, E, 3)
    IN  IF n < 4 \/ m = 0 \/ m >= n THEN NoDetail
        ELSE IF /\ S[1] = 1
                /\ SubSeq(s, S[1], E[1]) = W_Kwota
                /\ S[2] = E[1] + 2
                /\ s[E[1] + 1] = " "
                /\ SubSeq(s, S[2], E[2]) = W_oryg
                /\ IsBalance(SubSeq(s, S[3], E[m]))
                /\ HasPrefix(SubSeq(s, S[m + 1], E[m + 1]), P_PLN)
        THEN [name |-> "original_amount",
              fields |-> [amount |-> clean_amount(SubSeq(s, S[3], E[m]))]]
        ELSE NoDetail

\* ^Kwota oryg\.:\s+(balance)\s+PLN
OriginalAmount(s) ==
    LET S == TokenStarts(s)
        E == TokenEnds(s)
        n == Len(S)
        m == AmountEnd(s, S, E, 3)
    IN  IF n < 4 \/ m = 0 \/ m >= n THEN NoDetail
        ELSE IF /\ S[1] = 1
                /\ SubSeq(s, S[1], E[1]) = W_Kwota
                /\ S[2] = E[1] + 2
                /\ s[E[1] + 1] = " "
                /\ SubSeq(s, S[2], E[2]) = W_oryg
                /\ IsBalance(SubSeq(s, S[3], E[m]))
                /\ HasPrefix(SubSeq(s, S[m + 1], E[m + 1]), P_PLN)
        THEN [name |-> "original_amount",
              fields |-> [original_amount |-> clean_amount(SubSeq(s, S[3], E[m]))]]
        ELSE NoDetail

\* ^(date)\s+(id)\s+(pair)\s+(rate)\s+(amount)\s+PLN\s+(amount)\s+([A-Z]{3})
CurrencyDetails(s) ==
    LET S == TokenStarts(s)
        E == TokenEnds(s)
        n == Len(S)
        m == AmountEnd(s, S, E, 5)
        q == IF m = 0 THEN 0 ELSE AmountEnd(s, S, E, m + 2)
    IN  IF n < 8 \/ m = 0 \/ q = 0 \/ q >= n THEN NoDetail
        ELSE LET last == SubSeq(s, S[q + 1], E[q + 1])
             IN  IF /\ IsDate(SubSeq(s, S[1], E[1]))
                    /\ IsId(SubSeq(s, S[2], E[2]))
                    /\ IsCurrencyPair(SubSeq(s, S[3], E[3]))
                    /\ IsRate(SubSeq(s, S[4], E[4]))
                    /\ IsAmount(SubSeq(s, S[5], E[m]))
                    /\ SubSeq(s, S[m + 1], E[m + 1]) = P_PLN
                    /\ IsAmount(SubSeq(s, S[m + 2], E[q]))
                    /\ Len(last) >= 3
                    /\ AllIn(Take(last, 3), UpperAZ)
                 THEN [name |-> "currency_details",
                       fields |-> [currency_pair |-> SubSeq(s, S[3], E[3]),
                                   exchange_rate |-> FloatVal(SubSeq(s, S[4], E[4])),
                                   pln_amount |-> clean_amount(SubSeq(s, S[5], E[m])),
                                   foreign_amount |-> clean_amount(SubSeq(s, S[m + 2], E[q])),
                                   foreign_currency |-> Take(last, 3)]]
                 ELSE NoDetail

\* ^(\d{10,})\s+(.+?)\s+Ref\. wł\. zlec\.:\s+(\d+)
TransferDetails(s) ==
    LET S == TokenStarts(s)
        E == TokenEnds(s)
        n == Len(S)
        Ends == {k \in 2..(n - 4) :
                    /\ WordsAt(s, S, E, k + 1, <<W_Ref, W_wl, W_zlec>>)
                    /\ E[k + 3] - S[k + 3] + 1 = Len(W_zlec)
                    /\ LeadingDigits(SubSeq(s, S[k + 4], E[k + 4])) # <<>>}
    IN  IF n < 6 \/ Ends = {} THEN NoDetail
        ELSE LET k == CHOOSE x \in Ends : \A y \in Ends : x <= y
                 t1 == SubSeq(s, S[1], E[1])
             IN  IF Len(t1) >= 10 /\ AllIn(t1, Digits)
                 THEN [name |-> "transfer_details",
                       fields |-> [account_number |-> t1,
                                   recipient |-> SubSeq(s, S[2], E[k]),
                                   reference |-> LeadingDigits(SubSeq(s, S[k + 4], E[k + 4]))]]
                 ELSE NoDetail

\* one turn of the loop of extract_additional_details on the stripped line
\* s: the first detail pattern, in the order of the code's tests, that
\* matches, and the fields it assigns
DetailMatch(s) ==
    IF CardDetails(s).name # "none" THEN CardDetails(s)
    ELSE IF WebPaymentDetails(s).name # "none" THEN WebPaymentDetails(s)
    ELSE IF OriginalAmount(s).name # "none" THEN OriginalAmount(s)
    ELSE IF CurrencyDetails(s).name # "none" THEN CurrencyDetails(s)
    ELSE IF TransferDetails(s).name # "none" THEN TransferDetails(s)
    ELSE NoDetail

(***************************************************************************)
(* The lines of the pages of the checked instances.                        *)
(***************************************************************************)
L_transfer ==
    <<"0", "1", ".", "0", "2", ".", "2", "0", "2", "4", " ", "A", "B", "C",
      "1", "2", "3", " ", "P", "R", "Z", "E", "L", "E", "W", " ", "W", "Y",
      "C", "H", "O", "D", "Z", "A_og", "C", "Y", " ", "-", "1", "0", "0",
      ",", "0", "0", " ", "9", "0", "0", ",", "0", "0">>

L_generic ==
    <<"0", "2", ".", "0", "2", ".", "2", "0", "2", "4", " ", "X", "Y", "Z",
      "9", " ", "O", "P", "L", "A", "T", "A", " ", "Z", "A", " ", "K", "A",
      "R", "T", "E", " ", "-", "5", ",", "0", "0", " ", "1", " ", "8", "9",
      "5", ",", "0", "0">>

L_carryover ==
    <<"S", "a", "l", "d", "o", " ", "z", " ", "p", "r", "z", "e", "n", "i",
      "e", "s", "i", "e", "n", "i", "a", " ", "5", " ", "0", "0", "0", ",",
      "0", "0">>

L_card_detail ==
    <<"0", "1", ".", "0", "2", ".", "2", "0", "2", "4", " ", "K", "a", "r",
      "t", "a", ":", "1", "2", "3", "4", "5", "6", "*", "*", "*", "*", "1",
      "2", "3", "4", " ", "L", "o", "k", "a", "l", "i", "z", "a", "c", "j",
      "a", ":", " ", "W", "A", "R", "S", "Z", "A", "W", "A", " ", "P", "L",
      " ", "N", "r", " ", "r", "e", "f", ":", " ", "7", "7">>

L_web_detail ==
    <<"0", "3", ".", "0", "2", ".", "2", "0", "2", "4", " ", "T", "e", "l",
      ":", "4", "8", "1", "2", "3", "4", "5", "6", " ", "G", "o", "d", "z",
      ".", "1", "2", ":", "3", "0", ":", "0", "0", " ", "L", "o", "k", "a",
      "l", "i", "z", "a", "c", "j", "a", ":", " ", "K", "R", "A", "K", "O",
      "W", " ", "N", "r", " ", "r", "e", "f", ":", " ", "7", "8">>

L_original_amount ==
    <<"K", "w", "o", "t", "a", " ", "o", "r", "y", "g", ".", ":", " ", "1",
      " ", "2", "3", "4", ",", "5", "6", " ", "P", "L", "N">>

L_currency_detail ==
    <<"0", "4", ".", "0", "2", ".", "2", "0", "2", "4", " ", "K", "A", "N",
      "1", " ", "E", "U", "R", "/", "P", "L", "N", " ", "4", ".", "5", " ",
      "-", "4", "5", "0", ",", "0", "0", " ", "P", "L", "N", " ", "1", "0",
      "0", ",", "0", "0", " ", "E", "U", "R">>

L_transfer_detail ==
    <<"1", "2", "3", "4", "5", "6", "7", "8", "9", "0", "1", "2", "3", "4",
      " ", "J", "A", "N", " ", "K", "O", "W", "A", "L", "S", "K", "I", " ",
      "R", "e", "f", ".", " ", "w", "l_st", ".", " ", "z", "l", "e", "c",
      ".", ":", " ", "4", "2">>

L_plain ==
    <<"S", "t", "r", "o", "n", "a", " ", "1", " ", "z", " ", "2">>

WindowVocab == {L_transfer, L_card_detail, L_web_detail, L_plain}

DetailVocab ==
    {L_card_detail, L_web_detail, L_original_amount, L_currency_detail,
     L_transfer_detail, L_plain}

TransactionVocab == {L_transfer, L_generic, L_carryover}

\* the lines of the pages of the checked instances
PageLines == WindowVocab \cup DetailVocab \cup TransactionVocab

\* parse_transaction_line and one turn of the loop of
\* extract_additional_details are functions of the line alone: their
\* values on the lines of the pages
ParsedLines == [l \in PageLines |-> parse_transaction_line(l)]

LineDetails == [l \in PageLines |-> DetailMatch(StripSpace(l))]

\* the values are computed once, before the first step
PagesKnown ==
    /\ parsed_of = ParsedLines
    /\ details_of = LineDetails

\* parse_transaction_line(l)
ParseOf(l) == parsed_of[l]

\* the detail pattern that matches lines[i].strip() and its fields
DetailOf(l) == details_of[l]

\* dict.update: the entries of f added to d, replacing those of the same key
Update(d, f) ==
    [k \in DOMAIN d \cup DOMAIN f |-> IF k \in DOMAIN f THEN f[k] ELSE d[k]]

Min(a, b) == IF a <= b THEN a ELSE b

\* the loop of extract_additional_details from position j to position last
RECURSIVE DetailsLoop(_, _, _, _)
DetailsLoop(page, j, last, details) ==
    IF j > last THEN details
    ELSE DetailsLoop(page, j + 1, last,
                     Update(details, DetailOf(page[j]).fields))

\* extract_additional_details looking one line further
extract_additional_details_five(page, index) ==
    DetailsLoop(page, index + 1, Min(index + 5, Len(page)), NoFields)

\* TransactionParser.extract_additional_details: range(transaction_index + 1,
\* min(transaction_index + 5, len(lines))) is, in positions from 1, the
\* positions index + 1 .. min(index + 4, Len(page))
extract_additional_details(page, index) ==
    DetailsLoop(page, index + 1, Min(index + 4, Len(page)), NoFields)

(***************************************************************************)
(* parse_all_files and parse_pdf_file.  A path is the number of its place  *)
(* in the sort order of the paths, and pdf_path.name is that number.  What *)
(* pdfplumber does (the number of pages, the text of a page, an exception  *)
(* at open or at extract_text) is chosen by the environment.               *)
(***************************************************************************)
\* every sequence of 1 to n elements of A
RECURSIVE SeqsUpTo(_, _)
SeqsUpTo(A, n) ==
    IF n = 0 THEN {}
    ELSE LET shorter == SeqsUpTo(A, n - 1)
         IN  {<<a>> : a \in A} \cup {Append(s, a) : s \in shorter, a \in A}

\* the pages of the page-level instances: any page of at most MaxLines
\* lines over WindowVocab, and any transaction line followed by at most
\* MaxDetails lines over DetailVocab
WindowPages == SeqsUpTo(WindowVocab, MaxLines)

DetailPages ==
    {<<t>> : t \in TransactionVocab}
    \cup {<<t>> \o w : t \in TransactionVocab, w \in SeqsUpTo(DetailVocab, MaxDetails)}

PagePool == WindowPages \cup DetailPages

\* the page texts of the batch instances
BatchPages ==
    {<<L_transfer, L_card_detail, L_generic>>, <<L_carryover, L_plain>>}

FileIds == 1..MaxFiles

\* sorted(pdf_files)
sorted(S) == Ascending(S)

\* the new records put in front
extend_front(list, more) == more \o list

\* list.extend
extend(list, more) == list \o more

\* lines 194-202 of parse_pdf_file for the line at position index of page:
\* the record of parse_transaction_line, stamped with the file name and the
\* page number, with the details of the following lines merged in
EmittedRecord(page, index, file, pnum) ==
    LET transaction == ParseOf(page[index])
        stamped == Update(transaction, [source_file |-> file, page |-> pnum])
    IN  Update(stamped, extract_additional_details(page, index))

Visit(page, index) ==
    [file |-> queue[file_idx], page |-> page_num, index |-> index, text |-> page[index]]

\* parse_pdf_file returns its list and parse_all_files extends the result
\* with it, then goes on to the next path or returns
ReturnFromFile ==
    /\ all_transactions' = extend(all_transactions, transactions)
    /\ all_seen' = all_seen \o seen
    /\ transactions' = <<>>
    /\ seen' = <<>>
    /\ lines' = <<>>
    /\ i' = 0
    /\ n_pages' = 0
    /\ page_num' = 0
    /\ IF file_idx < Len(queue)
       THEN file_idx' = file_idx + 1 /\ pc' = "open"
       ELSE file_idx' = file_idx /\ pc' = "done"

fun_vars == <<amount_str, amount_out, line, parsed>>

\* parse_all_files: the folder is missing or holds no PDF file
ReturnEmpty ==
    /\ pc = "start"
    /\ pdf_files = {}
    /\ pc' = "done"
    /\ UNCHANGED <<fun_vars, memo_vars, pdf_files, queue, file_idx, n_pages, page_num, lines, i,
                   transactions, all_transactions, seen, all_seen, failed>>

\* parse_all_files: the loop starts on sorted(pdf_files)
SortFiles ==
    /\ pc = "start"
    /\ pdf_files # {}
    /\ queue' = sorted(pdf_files)
    /\ file_idx' = 1
    /\ pc' = "open"
    /\ UNCHANGED <<fun_vars, memo_vars, pdf_files, n_pages, page_num, lines, i, transactions,
                   all_transactions, seen, all_seen, failed>>

\* parse_pdf_file: pdfplumber.open succeeds
OpenOk ==
    /\ pc = "open"
    /\ n_pages' \in 0..MaxPages
    /\ page_num' = 0
    /\ transactions' = <<>>
    /\ pc' = "page"
    /\ UNCHANGED <<fun_vars, memo_vars, pdf_files, queue, file_idx, lines, i, all_transactions,
                   seen, all_seen, failed>>

\* parse_pdf_file: pdfplumber.open raises; the except clause logs and the
\* empty list is returned
OpenFail ==
    /\ pc = "open"
    /\ failed' = failed \cup {queue[file_idx]}
    /\ ReturnFromFile
    /\ UNCHANGED <<fun_vars, memo_vars, pdf_files, queue>>

\* parse_pdf_file: the next page has text
ExtractText ==
    /\ pc = "page"
    /\ page_num < n_pages
    /\ page_num' = page_num + 1
    /\ lines' \in BatchPages
    /\ i' = 0
    /\ pc' = "lines"
    /\ UNCHANGED <<fun_vars, memo_vars, pdf_files, queue, file_idx, n_pages, transactions,
                   all_transactions, seen, all_seen, failed>>

\* parse_pdf_file: the next page has no text (if not text: continue)
ExtractNothing ==
    /\ pc = "page"
    /\ page_num < n_pages
    /\ page_num' = page_num + 1
    /\ UNCHANGED <<fun_vars, memo_vars, pc, pdf_files, queue, file_idx, n_pages, lines, i,
                   transactions, all_transactions, seen, all_seen, failed>>

\* parse_pdf_file: extract_text raises on the next page; the except clause
\* logs and the list as it stands is returned
ExtractFail ==
    /\ pc = "page"
    /\ page_num < n_pages
    /\ failed' = failed \cup {queue[file_idx]}
    /\ ReturnFromFile
    /\ UNCHANGED <<fun_vars, memo_vars, pdf_files, queue>>

\* parse_pdf_file: the next line is a transaction line
ProcessLine ==
    /\ pc = "lines"
    /\ i < Len(lines)
    /\ IsTransaction(ParseOf(lines[i + 1]))
    /\ transactions' =
           Append(transactions, EmittedRecord(lines, i + 1, queue[file_idx], page_num))
    /\ seen' = Append(seen, Visit(lines, i + 1))
    /\ i' = i + 1
    /\ UNCHANGED <<fun_vars, memo_vars, pc, pdf_files, queue, file_idx, n_pages, page_num, lines,
                   all_transactions, all_seen, failed>>

\* parse_pdf_file: the next line is no transaction line
SkipLine ==
    /\ pc = "lines"
    /\ i < Len(lines)
    /\ ~IsTransaction(ParseOf(lines[i + 1]))
    /\ seen' = Append(seen, Visit(lines, i + 1))
    /\ i' = i + 1
    /\ UNCHANGED <<fun_vars, memo_vars, pc, pdf_files, queue, file_idx, n_pages, page_num, lines,
                   transactions, all_transactions, all_seen, failed>>

\* parse_pdf_file: the lines of the page are done
EndPage ==
    /\ pc = "lines"
    /\ i = Len(lines)
    /\ pc' = "page"
    /\ UNCHANGED <<fun_vars, memo_vars, pdf_files, queue, file_idx, n_pages, page_num, lines, i,
                   transactions, all_transactions, seen, all_seen, failed>>

\* parse_pdf_file: the pages are done and the list is returned
EndFile ==
    /\ pc = "page"
    /\ page_num = n_pages
    /\ ReturnFromFile
    /\ UNCHANGED <<fun_vars, memo_vars, pdf_files, queue, failed>>

FunIdle ==
    /\ amount_str = <<>>
    /\ amount_out = Pending
    /\ line = <<>>
    /\ parsed = Pending

\* parse_all_files is called on a folder with any of the paths
Init ==
    /\ PagesKnown
    /\ FunIdle
    /\ pc = "start"
    /\ pdf_files \in SUBSET FileIds
    /\ queue = <<>>
    /\ file_idx = 0
    /\ n_pages = 0
    /\ page_num = 0
    /\ lines = <<>>
    /\ i = 0
    /\ transactions = <<>>
    /\ all_transactions = <<>>
    /\ seen = <<>>
    /\ all_seen = <<>>
    /\ failed = {}

Next ==
    \/ ReturnEmpty
    \/ SortFiles
    \/ OpenOk
    \/ OpenFail
    \/ ExtractText
    \/ ExtractNothing
    \/ ExtractFail
    \/ ProcessLine
    \/ SkipLine
    \/ EndPage
    \/ EndFile

Spec == Init /\ [][Next]_vars

\* parse_pdf_file is at the first line of the one page of the one file
InitPage ==
    /\ PagesKnown
    /\ FunIdle
    /\ pc = "lines"
    /\ pdf_files = {1}
    /\ queue = <<1>>
    /\ file_idx = 1
    /\ n_pages = 1
    /\ page_num = 1
    /\ lines \in PagePool
    /\ i = 0
    /\ transactions = <<>>
    /\ all_transactions = <<>>
    /\ seen = <<>>
    /\ all_seen = <<>>
    /\ failed = {}

NextPage == ProcessLine \/ SkipLine

SpecPage == InitPage /\ [][NextPage]_vars

(***************************************************************************)
(* Properties of parse_pdf_file on one page (SpecPage) and of              *)
(* parse_all_files (Spec).                                                 *)
(***************************************************************************)
CoreKeys ==
    {"date", "transaction_id", "type", "description", "amount", "balance",
     "raw_line", "pattern_used", "source_file", "page"}

DetailKeys ==
    {"card_number", "location", "phone", "time", "original_amount",
     "currency_pair", "exchange_rate", "pln_amount", "foreign_amount",
     "foreign_currency", "account_number", "recipient", "reference"}

\* the rules that match each line of the pages
RuleHits ==
    [l \in PageLines |->
        {k \in 1..Len(PatternOrder) : PatternMatch(PatternOrder[k], StripSpace(l)).matched}]

MatchesSomeRule(l) == RuleHits[l] # {}

\* the visited lines that match a rule
MatchedSeen(visits) == SelectSeq(visits, LAMBDA v : MatchesSomeRule(v.text))

\* the position in lines of the line that record k of transactions is for
OriginOf(k) == MatchedSeen(seen)[k].index

\* the positions extract_additional_details is to examine after position p
WindowAfter(p) == (p + 1)..Min(p + 4, Len(lines))

\* line j assigns the value v to the key
Assigns(j, key, v) ==
    /\ key \in DOMAIN DetailOf(lines[j]).fields
    /\ DetailOf(lines[j]).fields[key] = v

\* the detail patterns that assign the key in the window after position p
Writers(p, key) ==
    {DetailOf(lines[j]).name : j \in {x \in WindowAfter(p) : key \in DOMAIN DetailOf(lines[x]).fields}}

RecordsFollowVisits == Len(transactions) = Len(MatchedSeen(seen))

\* C2: every detail field of an emitted transaction comes from a line after
\* the transaction's line, at most four lines further, with no transaction
\* line between the two or at that line.
C2_DetailsBeforeNextTransaction ==
    /\ RecordsFollowVisits
    /\ \A k \in 1..Len(transactions) :
           \A key \in DOMAIN transactions[k] \ CoreKeys :
               \E j \in WindowAfter(OriginOf(k)) :
                   /\ Assigns(j, key, transactions[k][key])
                   /\ \A m \in (OriginOf(k) + 1)..j : ~MatchesSomeRule(lines[m])

\* C3: the details of a transaction come from the four lines after its
\* line, as far as the page goes: every detail field has a line there that
\* assigns it, and a detail line four lines after the transaction gives the
\* record its fields when none of the three lines between is a detail line.
C3_WindowOfFour ==
    /\ RecordsFollowVisits
    /\ \A k \in 1..Len(transactions) :
           LET p == OriginOf(k)
               r == transactions[k]
           IN  /\ \A key \in DOMAIN r \ CoreKeys :
                      \E j \in WindowAfter(p) : Assigns(j, key, r[key])
               /\ (/\ p + 4 <= Len(lines)
                   /\ DetailOf(lines[p + 4]).name # "none"
                   /\ \A j \in (p + 1)..(p + 3) : DetailOf(lines[j]).name = "none")
                  => /\ DOMAIN r \ CoreKeys = DOMAIN DetailOf(lines[p + 4]).fields
                     /\ \A key \in DOMAIN r \ CoreKeys : Assigns(p + 4, key, r[key])

C3_Witness ==
    /\ Len(transactions) >= 1
    /\ Len(lines) >= OriginOf(1) + 5
    /\ \A j \in (OriginOf(1) + 1)..(OriginOf(1) + 3) : DetailOf(lines[j]).name = "none"
    /\ DetailOf(lines[OriginOf(1) + 4]).name = "card_details"
    /\ DetailOf(lines[OriginOf(1) + 5]).name = "web_payment_details"
    /\ "card_number" \in DOMAIN transactions[1]
    /\ "phone" \notin DOMAIN transactions[1]

C10_MergeKeepsCoreFields ==
    /\ RecordsFollowVisits
    /\ \A k \in 1..Len(transactions) :
           LET own == ParseOf(lines[OriginOf(k)])
               r == transactions[k]
           IN  /\ CoreKeys \subseteq DOMAIN r
               /\ \A key \in DOMAIN own : r[key] = own[key]
               /\ r.source_file = queue[file_idx]
               /\ r.page = page_num

C10_Witness ==
    /\ Len(transactions) >= 1
    /\ {"original_amount", "location", "pln_amount"} \subseteq DOMAIN transactions[1]
    /\ transactions[1].amount = [m |-> -100, e |-> 0]
    /\ transactions[1].original_amount = [m |-> 123456, e |-> 2]

\* C5: no record of the result is from a document whose open or read
\* raised, and the loop goes on to the last document all the same.
C5_FailedDocumentContributesNothing ==
    /\ \A k \in 1..Len(all_transactions) : all_transactions[k].source_file \notin failed
    /\ (pc = "done" /\ queue # <<>>) => file_idx = Len(queue)

\* a visit is before another in document, page and line order
Before(a, b) ==
    \/ a.file < b.file
    \/ a.file = b.file /\ a.page < b.page
    \/ a.file = b.file /\ a.page = b.page /\ a.index < b.index

\* the records are for the visited lines that match a rule, in order
RecordsOf(records, visits) ==
    LET ms == MatchedSeen(visits)
    IN  /\ Len(records) = Len(ms)
        /\ \A k \in 1..Len(ms) :
               /\ records[k].source_file = ms[k].file
               /\ records[k].page = ms[k].page
               /\ records[k].raw_line = StripSpace(ms[k].text)

\* C6: the result holds one record for each visited line that matches a
\* rule, in the order of the visits, which is the order of the documents
\* (by sorted path), of the pages within a document and of the lines within
\* a page; so records are only ever added at the end.
C6_SourceOrderPreserved ==
    /\ RecordsOf(all_transactions, all_seen)
    /\ RecordsOf(transactions, seen)
    /\ \A a, b \in 1..Len(all_seen) : a < b => Before(all_seen[a], all_seen[b])
    /\ \A a, b \in 1..Len(seen) : a < b => Before(seen[a], seen[b])
    /\ \A a \in 1..Len(all_seen) : \A b \in 1..Len(seen) : Before(all_seen[a], seen[b])

C6_Witness ==
    /\ pc = "done"
    /\ \E a, b, c, d \in 1..Len(all_transactions) :
           /\ a < b /\ b < c /\ c < d
           /\ all_transactions[a].source_file = all_transactions[b].source_file
           /\ all_transactions[a].page = all_transactions[b].page
           /\ all_transactions[b].source_file = all_transactions[c].source_file
           /\ all_transactions[b].page < all_transactions[c].page
           /\ all_transactions[c].source_file < all_transactions[d].source_file

====
